---- MODULE Spec2Model ----
(***************************************************************************)
(* waybar-crypto: configuration resolution and rendering engine.           *)
(*                                                                         *)
(* A Python str is modelled as a sequence of one-character strings, so     *)
(* that the empty string is << >>, concatenation is \o and the tests       *)
(* `!= ""` of the renderer are tests on the sequence.  The two non-ASCII   *)
(* characters of the examples are written EuroSign and BitcoinSign.  The   *)
(* replacement field "{val:.{dp}f}" of a format template is the single     *)
(* element FLOAT_FORMATTER of the template.                                *)
(*                                                                         *)
(* A Python dict is modelled as a function when only membership and        *)
(* lookup are used, and as a sequence of <<key, value>> entries when the   *)
(* iteration order matters (config["coins"], the response's "data").       *)
(***************************************************************************)
EXTENDS Integers, Sequences, FiniteSets, TLC

VARIABLES
    config,         \* the Config handed to WaybarCrypto (self.config)
    quotes_latest,  \* the ResponseQuotesLatest handed to waybar_output
    pc,             \* position of main / waybar_output
    coin_idx,       \* number of coins the loop of waybar_output has processed
    output_obj,     \* the WaybarOutput under construction
    last_output,    \* the block the latest iteration rendered (lines 156-175)
    raised,         \* the exception that ended the run, "none" when none did
    stdout,         \* what main wrote to sys.stdout
    symbol,         \* argument of a direct call of _find_coin_data
    found,          \* result of that call
    results,        \* outcome of each call of waybar_output so far
    module,         \* the read_config in use: config.py's or waybar_crypto.py's
    cfp,            \* the configuration file the latest read_config parsed
    env,            \* os.environ: the value of COINMARKETCAP_API_KEY, if set
    format_table,   \* the module-level dict DEFAULT_DISPLAY_OPTIONS_FORMAT
    calls,          \* number of read_config calls of the process so far
    response,       \* what requests.get yields to coinmarketcap_latest
    exc_info,       \* message and error_code of the exception it raised
    isfile,         \* os.path.isfile of the configuration path given to main
    requests        \* the HTTP requests issued so far, each with its headers

renderVars == <<quotes_latest, coin_idx, output_obj, last_output, stdout,
                symbol, found, results>>
configVars == <<module, cfp, env, format_table, calls>>
fetchVars == <<response, exc_info>>
mainVars == <<isfile, requests>>

vars == <<config, pc, raised, renderVars, configVars, fetchVars, mainVars>>

-----------------------------------------------------------------------------
(* Bounds of the model. *)

MaxCoins == 3       \* configured coins
MaxKeys == 2        \* keys in the response's data
Scale == 3          \* decimal digits kept of a quoted value
MaxCalls == 2       \* successive read_config calls of one process
MaxRuns == 2        \* successive waybar_output calls on one object
MaxPrecision == 3   \* largest precision of a coin

-----------------------------------------------------------------------------
(* Characters and case. *)

EuroSign == "<euro>"
BitcoinSign == "<btc>"

UpperChars == <<"B", "T", "X", "E", "U", "R", "S", "D">>
LowerChars == <<"b", "t", "x", "e", "u", "r", "s", "d">>

\* str.lower() on one character
LowerChar(c) ==
    IF \E k \in DOMAIN UpperChars : UpperChars[k] = c
    THEN LowerChars[CHOOSE k \in DOMAIN UpperChars : UpperChars[k] = c]
    ELSE c

\* str.lower()
lower(s) == [k \in DOMAIN s |-> LowerChar(s[k])]

-----------------------------------------------------------------------------
(* models.py, config.py: the closed set of metrics and the format table. *)

DisplayOption ==
    {"price", "percent_change_1h", "percent_change_24h", "percent_change_7d",
     "percent_change_30d", "percent_change_60d", "percent_change_90d",
     "volume_24h", "volume_change_24h"}

\* The words a metric name is made of: `"volume" in display_option` is a
\* test on these words.
NameWords ==
    [o \in DisplayOption |->
        CASE o = "price" -> <<"price">>
          [] o = "percent_change_1h" -> <<"percent", "change", "1h">>
          [] o = "percent_change_24h" -> <<"percent", "change", "24h">>
          [] o = "percent_change_7d" -> <<"percent", "change", "7d">>
          [] o = "percent_change_30d" -> <<"percent", "change", "30d">>
          [] o = "percent_change_60d" -> <<"percent", "change", "60d">>
          [] o = "percent_change_90d" -> <<"percent", "change", "90d">>
          [] o = "volume_24h" -> <<"volume", "24h">>
          [] o = "volume_change_24h" -> <<"volume", "change", "24h">>]

\* Python's `word in display_option`
InName(word, display_option) ==
    \E k \in DOMAIN NameWords[display_option] :
        NameWords[display_option][k] = word

FLOAT_FORMATTER == "{val:.{dp}f}"

DEFAULT_DISPLAY_OPTIONS_FORMAT ==
    [o \in DisplayOption |->
        CASE o = "price" -> <<FLOAT_FORMATTER>>
          [] o = "percent_change_1h" -> <<"1", "h", ":", FLOAT_FORMATTER, "%">>
          [] o = "percent_change_24h" -> <<"2", "4", "h", ":", FLOAT_FORMATTER, "%">>
          [] o = "percent_change_7d" -> <<"7", "d", ":", FLOAT_FORMATTER, "%">>
          [] o = "percent_change_30d" -> <<"3", "0", "d", ":", FLOAT_FORMATTER, "%">>
          [] o = "percent_change_60d" -> <<"6", "0", "d", ":", FLOAT_FORMATTER, "%">>
          [] o = "percent_change_90d" -> <<"9", "0", "d", ":", FLOAT_FORMATTER, "%">>
          [] o = "volume_24h" ->
                <<"2", "4", "h", "V", "o", "l", ":", FLOAT_FORMATTER>>
          [] o = "volume_change_24h" ->
                <<"2", "4", "h", "V", "o", "l", ":", FLOAT_FORMATTER, "%">>]

DEFAULT_DISPLAY_OPTIONS == <<"price">>
DEFAULT_PRECISION == 2
MIN_PRECISION == 0
\* mutant: no class is set
ClassNameEmpty == << >>

CLASS_NAME == <<"c", "r", "y", "p", "t", "o">>

-----------------------------------------------------------------------------
(* Numbers.  A quoted value is an integer count of 10^-Scale units; the    *)
(* values of the model are exactly representable as floats or are no ties, *)
(* so that round() rounds them half to even as it does the float.          *)

RECURSIVE Pow10(_)
Pow10(n) == IF n <= 0 THEN 1 ELSE 10 * Pow10(n - 1)

Abs(n) == IF n < 0 THEN -n ELSE n

DigitChars == <<"0", "1", "2", "3", "4", "5", "6", "7", "8", "9">>

\* the decimal digits of n >= 0
RECURSIVE Digits(_)
Digits(n) ==
    IF n < 10 THEN <<DigitChars[n + 1]>>
    ELSE Digits(n \div 10) \o <<DigitChars[(n % 10) + 1]>>

\* the decimal digits of n >= 0, zero-padded on the left to width w
RECURSIVE PadDigits(_, _)
PadDigits(n, w) ==
    IF w <= 0 THEN << >>
    ELSE PadDigits(n \div 10, w - 1) \o <<DigitChars[(n % 10) + 1]>>

\* round(value, precision): the magnitude of the result in 10^-precision
\* units, ties to even
RoundMagnitude(value, precision) ==
    IF precision >= Scale
    THEN Abs(value) * Pow10(precision - Scale)
    ELSE LET d == Pow10(Scale - precision)
             q == Abs(value) \div d
             r == Abs(value) % d
         IN  IF 2 * r > d \/ (2 * r = d /\ q % 2 = 1) THEN q + 1 ELSE q

\* "{val:.{dp}f}".format(dp=precision, val=round(value, precision))
FormatFloat(value, precision) ==
    LET m == RoundMagnitude(value, precision)
        p == Pow10(precision)
    IN  (IF value < 0 THEN <<"-">> ELSE << >>)
        \o Digits(m \div p)
        \o (IF precision > 0 THEN <<".">> \o PadDigits(m % p, precision)
            ELSE << >>)

\* str.format(dp=..., val=...) on a template
RECURSIVE Format(_, _, _)
Format(template, precision, value) ==
    IF template = << >> THEN << >>
    ELSE (IF Head(template) = FLOAT_FORMATTER
          THEN FormatFloat(value, precision)
          ELSE <<Head(template)>>)
         \o Format(Tail(template), precision, value)

-----------------------------------------------------------------------------
(* waybar_crypto.py: WaybarCrypto._find_coin_data.                         *)
(* data is the sequence of the response's <<key, value>> entries in the    *)
(* dict's iteration order.  The result is [ok |-> TRUE, value |-> v], or   *)
(* [ok |-> FALSE] for the WaybarCryptoException.                           *)

NotFound == [ok |-> FALSE]

\* mutant: the exact match alone, without the case-insensitive fallback
FindCoinDataExact(data, sym) ==
    IF \E k \in DOMAIN data : data[k][1] = sym
    THEN [ok |-> TRUE,
          value |-> data[CHOOSE k \in DOMAIN data : data[k][1] = sym][2]]
    ELSE NotFound

\* mutant: the first key that matches ignoring case, exact or not
FindCoinDataFirstFold(data, sym) ==
    IF \E k \in DOMAIN data : lower(data[k][1]) = lower(sym)
    THEN LET first == CHOOSE k \in DOMAIN data :
                        /\ lower(data[k][1]) = lower(sym)
                        /\ \A j \in 1..(k - 1) : lower(data[j][1]) # lower(sym)
         IN  [ok |-> TRUE, value |-> data[first][2]]
    ELSE NotFound

_find_coin_data(data, sym) ==
    IF \E k \in DOMAIN data : data[k][1] = sym
    THEN [ok |-> TRUE,
          value |-> data[CHOOSE k \in DOMAIN data : data[k][1] = sym][2]]
    ELSE IF \E k \in DOMAIN data : lower(data[k][1]) = lower(sym)
    THEN LET first == CHOOSE k \in DOMAIN data :
                        /\ lower(data[k][1]) = lower(sym)
                        /\ \A j \in 1..(k - 1) : lower(data[j][1]) # lower(sym)
         IN  [ok |-> TRUE, value |-> data[first][2]]
    ELSE NotFound

-----------------------------------------------------------------------------
(* waybar_crypto.py: WaybarCrypto.waybar_output.                           *)
(* A step of the code that can raise yields [exc |-> name of the           *)
(* exception] or [exc |-> "none", ...].                                    *)

\* lines 134-136
Spacer(spacer_symbol) ==
    IF spacer_symbol # << >> THEN <<" ">> \o spacer_symbol ELSE spacer_symbol

\* mutant: "change" is tested before "volume"
PrecisionChangeFirst(display_option, coin_config) ==
    IF InName("change", display_option) THEN coin_config.change_precision
    ELSE IF InName("volume", display_option) THEN coin_config.volume_precision
    ELSE IF InName("price", display_option) THEN coin_config.price_precision
    ELSE DEFAULT_PRECISION

\* mutant: no branch for the price
PrecisionWithoutPrice(display_option, coin_config) ==
    IF InName("volume", display_option) THEN coin_config.volume_precision
    ELSE IF InName("change", display_option) THEN coin_config.change_precision
    ELSE DEFAULT_PRECISION

\* lines 162-168
Precision(display_option, coin_config) ==
    IF InName("volume", display_option) THEN coin_config.volume_precision
    ELSE IF InName("change", display_option) THEN coin_config.change_precision
    ELSE IF InName("price", display_option) THEN coin_config.price_precision
    ELSE DEFAULT_PRECISION

\* mutant: the global override wins over the override of the coin
FormatStrGlobalFirst(coin_format_overrides, display_options_format, display_option) ==
    IF display_option \in DOMAIN display_options_format
    THEN [exc |-> "none",
          format_str |-> display_options_format[display_option]]
    ELSE IF display_option \in DOMAIN coin_format_overrides
    THEN [exc |-> "none",
          format_str |-> coin_format_overrides[display_option]]
    ELSE [exc |-> "KeyError"]

\* lines 172-174: dict.get(key, default) evaluates its default,
\* display_options_format[display_option], before the lookup
FormatStr(coin_format_overrides, display_options_format, display_option) ==
    IF display_option \notin DOMAIN display_options_format
    THEN [exc |-> "KeyError"]
    ELSE [exc |-> "none",
          format_str |->
            IF display_option \in DOMAIN coin_format_overrides
            THEN coin_format_overrides[display_option]
            ELSE display_options_format[display_option]]

\* mutant: a display option listed before is not rendered again
RECURSIVE RenderOptionsOnce(_, _, _, _, _, _)
RenderOptionsOnce(output, k, display_options, display_options_format, coin_config, pair_info) ==
    IF k > Len(display_options) THEN [exc |-> "none", output |-> output]
    ELSE LET display_option == display_options[k]
             precision == Precision(display_option, coin_config)
             fmt == FormatStr(coin_config.display_options_format,
                              display_options_format, display_option)
         IN  IF \E j \in 1..(k - 1) : display_options[j] = display_option
             THEN RenderOptionsOnce(output, k + 1, display_options,
                                    display_options_format, coin_config,
                                    pair_info)
             ELSE IF display_option \notin DOMAIN pair_info
             THEN [exc |-> "KeyError"]
             ELSE IF fmt.exc # "none" THEN [exc |-> fmt.exc]
             ELSE RenderOptionsOnce(
                    output \o Format(<<" ">> \o fmt.format_str, precision,
                                     pair_info[display_option]),
                    k + 1, display_options, display_options_format,
                    coin_config, pair_info)

\* mutant: the space after the rendered option instead of before it
RECURSIVE RenderOptionsSpaceAfter(_, _, _, _, _, _)
RenderOptionsSpaceAfter(output, k, display_options, display_options_format, coin_config, pair_info) ==
    IF k > Len(display_options) THEN [exc |-> "none", output |-> output]
    ELSE LET display_option == display_options[k]
             precision == Precision(display_option, coin_config)
             fmt == FormatStr(coin_config.display_options_format,
                              display_options_format, display_option)
         IN  IF display_option \notin DOMAIN pair_info
             THEN [exc |-> "KeyError"]
             ELSE IF fmt.exc # "none" THEN [exc |-> fmt.exc]
             ELSE RenderOptionsSpaceAfter(
                    output \o Format(fmt.format_str \o <<" ">>, precision,
                                     pair_info[display_option]),
                    k + 1, display_options, display_options_format,
                    coin_config, pair_info)

\* lines 161-175, from the k-th display option on
RECURSIVE RenderOptions(_, _, _, _, _, _)
RenderOptions(output, k, display_options, display_options_format, coin_config, pair_info) ==
    IF k > Len(display_options) THEN [exc |-> "none", output |-> output]
    ELSE LET display_option == display_options[k]
             precision == Precision(display_option, coin_config)
             fmt == FormatStr(coin_config.display_options_format,
                              display_options_format, display_option)
         IN  IF display_option \notin DOMAIN pair_info
             THEN [exc |-> "KeyError"]
             ELSE IF fmt.exc # "none" THEN [exc |-> fmt.exc]
             ELSE RenderOptions(
                    output \o Format(<<" ">> \o fmt.format_str, precision,
                                     pair_info[display_option]),
                    k + 1, display_options, display_options_format,
                    coin_config, pair_info)

\* lines 147-175: the block of one coin
CoinOutput(cfg, quotes, coin_name, coin_config) ==
    LET coin_data == _find_coin_data(quotes.data, coin_name)
    IN  IF "data" \notin DOMAIN quotes THEN [exc |-> "KeyError"]
        ELSE IF ~coin_data.ok THEN [exc |-> "WaybarCryptoException"]
        ELSE IF cfg.general.currency \notin DOMAIN coin_data.value.quote
        THEN [exc |-> "KeyError"]
        ELSE RenderOptions(coin_config.icon, 1, cfg.general.display_options,
                           cfg.general.display_options_format, coin_config,
                           coin_data.value.quote[cfg.general.currency])

\* lines 178-180
AppendTooltip(tooltip, output) ==
    tooltip \o (IF tooltip # << >> THEN <<"\n">> \o output ELSE output)

\* mutant: the separator also before the first block
AppendTextAlways(text, spacer, output) ==
    text \o spacer \o <<" ">> \o output

\* lines 182-184
AppendText(text, spacer, output) ==
    text \o (IF text # << >> THEN spacer \o <<" ">> \o output ELSE output)

\* mutant: one emptiness test for both accumulators
AccumulateOneTest(obj, coin_config, spacer, output) ==
    LET first == obj.text = << >> /\ obj.tooltip = << >>
    IN  IF coin_config.in_tooltip
        THEN [obj EXCEPT !.tooltip =
                @ \o (IF first THEN output ELSE <<"\n">> \o output)]
        ELSE [obj EXCEPT !.text =
                @ \o (IF first THEN output ELSE spacer \o <<" ">> \o output)]

\* mutant: the block goes to both accumulators
AccumulateBoth(obj, coin_config, spacer, output) ==
    [obj EXCEPT !.tooltip = AppendTooltip(obj.tooltip, output),
                !.text = AppendText(obj.text, spacer, output)]

\* lines 177-184
Accumulate(obj, coin_config, spacer, output) ==
    IF coin_config.in_tooltip
    THEN [obj EXCEPT !.tooltip = AppendTooltip(obj.tooltip, output)]
    ELSE [obj EXCEPT !.text = AppendText(obj.text, spacer, output)]

-----------------------------------------------------------------------------
(* Inputs: the configurations and the API responses of the model. *)

EUR == <<"E", "U", "R">>
USD == <<"U", "S", "D">>

NoFormats == [o \in {} |-> << >>]

\* A [general] section that overrides the price format only.
PriceFormatOnly == [o \in {"price"} |-> <<EuroSign, FLOAT_FORMATTER>>]

\* A [general] section that gives every metric a format_ option.
AllFormats ==
    [o \in DisplayOption |->
        IF o = "price" THEN <<EuroSign, FLOAT_FORMATTER>>
        ELSE DEFAULT_DISPLAY_OPTIONS_FORMAT[o]]

GlobalFormats == {NoFormats, PriceFormatOnly, AllFormats}

DisplayOptionLists ==
    {<<"price">>,
     <<"price", "percent_change_1h">>,
     <<"volume_change_24h", "percent_change_24h">>,
     <<"price", "price">>}

SpacerSymbols == {<< >>, <<"|">>}

Generals ==
    [api_key : {<<"k">>},
     currency_symbol : {<<EuroSign>>},
     currency : {EUR},
     display_options_format : GlobalFormats,
     display_options : DisplayOptionLists,
     spacer_symbol : SpacerSymbols]

BT == <<"B", "T">>
Bt == <<"B", "t">>
bt == <<"b", "t">>
XX == <<"X">>
xx == <<"x">>

CoinNames == {BT, bt, XX}

\* The section of each coin but for its in_tooltip option.
CoinConfig(name, in_tooltip) ==
    CASE name = BT ->
            [icon |-> <<BitcoinSign>>, in_tooltip |-> in_tooltip,
             price_precision |-> 1, change_precision |-> 2,
             volume_precision |-> 3,
             display_options_format |-> NoFormats]
      [] name = bt ->
            [icon |-> << >>, in_tooltip |-> in_tooltip,
             price_precision |-> 0, change_precision |-> 4,
             volume_precision |-> DEFAULT_PRECISION,
             display_options_format |->
                [o \in {"percent_change_1h"} |->
                    <<"1", "h", " ", FLOAT_FORMATTER>>]]
      [] name = XX ->
            [icon |-> <<"X">>, in_tooltip |-> in_tooltip,
             price_precision |-> DEFAULT_PRECISION,
             change_precision |-> DEFAULT_PRECISION,
             volume_precision |-> DEFAULT_PRECISION,
             display_options_format |->
                [o \in {"price"} |-> <<"$", FLOAT_FORMATTER>>]]

\* sequences without repetition over S, of length at most n
DistinctSeqs(S, n) ==
    {s \in UNION {[1..m -> S] : m \in 0..n} :
        \A a, b \in DOMAIN s : a # b => s[a] # s[b]}

\* config["coins"]: <<name, ConfigCoin>> entries in the order of the file
CoinDicts ==
    UNION {
        {[k \in DOMAIN names |-> <<names[k], CoinConfig(names[k], tips[k])>>] :
            tips \in [DOMAIN names -> BOOLEAN]} :
        names \in DistinctSeqs(CoinNames, MaxCoins)}

Configs == [general : Generals, coins : CoinDicts]

\* QuoteEntry values, in 10^-Scale units
BtcEntry ==
    [o \in DisplayOption |->
        CASE o = "price" -> 62885476
          [] o = "percent_change_1h" -> 883
          [] o = "percent_change_24h" -> 2300
          [] o = "percent_change_7d" -> 8888
          [] o = "percent_change_30d" -> 4711
          [] o = "percent_change_60d" -> 3130
          [] o = "percent_change_90d" -> 33967
          [] o = "volume_24h" -> 25044850
          [] o = "volume_change_24h" -> 60516]

EthEntry ==
    [o \in DisplayOption |->
        CASE o = "price" -> 2891125
          [] o = "percent_change_1h" -> 567
          [] o = "percent_change_24h" -> 2500
          [] o = "percent_change_7d" -> 6560
          [] o = "percent_change_30d" -> 41
          [] o = "percent_change_60d" -> -10184
          [] o = "percent_change_90d" -> 8361
          [] o = "volume_24h" -> 11289622
          [] o = "volume_change_24h" -> -1]

\* a quote that lacks the field percent_change_1h
PartialEntry ==
    [o \in DisplayOption \ {"percent_change_1h"} |-> EthEntry[o] + 1000]

ResponseKeys == {BT, Bt, XX, xx}

\* QuoteData of the model under each response key
QuoteData(key) ==
    CASE key = BT -> [symbol |-> key, quote |-> [c \in {EUR} |-> BtcEntry]]
      [] key = Bt -> [symbol |-> key, quote |-> [c \in {EUR} |-> EthEntry]]
      [] key = XX -> [symbol |-> key, quote |-> [c \in {USD} |-> BtcEntry]]
      [] key = xx -> [symbol |-> key, quote |-> [c \in {EUR} |-> PartialEntry]]

DataDicts ==
    {[k \in DOMAIN keys |-> <<keys[k], QuoteData(keys[k])>>] :
        keys \in DistinctSeqs(ResponseKeys, MaxKeys)}

Responses == [data : DataDicts]

-----------------------------------------------------------------------------
(* config.py: read_config, and the read_config of the single-file          *)
(* waybar_crypto.py.  The parsed file is a record: an option that may be   *)
(* absent or valueless is << >> when it is and <<value>> otherwise.        *)
(*   api_key, display : optional strings of [general]                      *)
(*   currency, currency_symbol : strings of [general]                      *)
(*   spacer_symbol : optional string of [general]                          *)
(*   formats : the format_<name> options of [general], by <name>           *)
(*   sections : the other sections in file order, each with name, icon,    *)
(*     in_tooltip (optional), precisions (by option name) and formats      *)
(* The display string is a sequence of metric names and "," characters.    *)
(* The result is [exc, table] and, when exc = "none", config; table is the *)
(* module-level format table after the call.                               *)

COIN_PRECISION_OPTIONS ==
    {"price_precision", "change_precision", "volume_precision"}

DEFAULT_COIN_CONFIG_TOOLTIP == FALSE

\* str.upper()
UpperChar(c) ==
    IF \E k \in DOMAIN LowerChars : LowerChars[k] = c
    THEN UpperChars[CHOOSE k \in DOMAIN LowerChars : LowerChars[k] = c]
    ELSE c

\* mutant: the case is kept
UpperKeep(s) == s

upper(s) == [k \in DOMAIN s |-> UpperChar(s[k])]

\* bool(x) of an optional string: neither None nor ""
Truthy(opt) == opt # << >> /\ opt[1] # << >>

\* str.split(","): the pieces between the commas
RECURSIVE Split(_, _, _)
Split(str, k, piece) ==
    IF k > Len(str) THEN <<piece>>
    ELSE IF str[k] = "," THEN <<piece>> \o Split(str, k + 1, << >>)
    ELSE Split(str, k + 1, Append(piece, str[k]))

\* config.py line 161: the piece is a key of the format table
is_display_option(piece, table) == Len(piece) = 1 /\ piece[1] \in DOMAIN table

\* config.py lines 92-102
ApiKey(file, environ) ==
    LET api_key == file.api_key
        api_key_env == IF environ = << >> THEN api_key ELSE environ
        chosen == IF Truthy(api_key_env) THEN api_key_env ELSE api_key
    IN  IF ~Truthy(chosen) THEN [exc |-> "NoApiKeyException"]
        ELSE [exc |-> "none", api_key |-> chosen[1]]

\* config.py lines 125-133 for one precision option
CoinPrecision(section, option) ==
    IF option \in DOMAIN section.precisions THEN section.precisions[option]
    ELSE DEFAULT_PRECISION

\* config.py lines 135-144, 172-179: the format_ options that name a key of
\* the table
FormatOverrides(formats, table) ==
    [o \in DOMAIN formats \cap DOMAIN table |-> formats[o]]

\* config.py lines 110-144 for one section
ConfigCoin(section, table) ==
    [icon |-> section.icon,
     in_tooltip |-> IF section.in_tooltip # << >> THEN section.in_tooltip[1]
                    ELSE DEFAULT_COIN_CONFIG_TOOLTIP,
     price_precision |-> CoinPrecision(section, "price_precision"),
     change_precision |-> CoinPrecision(section, "change_precision"),
     volume_precision |-> CoinPrecision(section, "volume_precision"),
     display_options_format |-> FormatOverrides(section.formats, table)]

\* mutant: MIN_PRECISION itself is refused
BadPrecisionZero(section) ==
    \E option \in COIN_PRECISION_OPTIONS \cap DOMAIN section.precisions :
        section.precisions[option] <= MIN_PRECISION

\* config.py lines 128-131
BadPrecision(section) ==
    \E option \in COIN_PRECISION_OPTIONS \cap DOMAIN section.precisions :
        section.precisions[option] < MIN_PRECISION

\* coins[key] = value on a dict kept as a sequence of entries
DictSet(dict, key, value) ==
    IF \E k \in DOMAIN dict : dict[k][1] = key
    THEN [k \in DOMAIN dict |->
            IF dict[k][1] = key THEN <<key, value>> ELSE dict[k]]
    ELSE Append(dict, <<key, value>>)

\* config.py lines 109-144, from the k-th section on
RECURSIVE Coins(_, _, _, _)
Coins(sections, k, coins, table) ==
    IF k > Len(sections) THEN [exc |-> "none", coins |-> coins]
    ELSE IF BadPrecision(sections[k]) THEN [exc |-> "WaybarCryptoException"]
    ELSE Coins(sections, k + 1,
               DictSet(coins, sections[k].name, ConfigCoin(sections[k], table)),
               table)

\* mutant: the pieces are taken as they are
DisplayOptionsUnchecked(file, table) ==
    LET raw_options == IF Truthy(file.display)
                       THEN Split(file.display[1], 1, << >>) ELSE << >>
        named == SelectSeq(raw_options, LAMBDA piece : piece # << >>)
    IN  [exc |-> "none",
         display_options |->
            IF named = << >> THEN DEFAULT_DISPLAY_OPTIONS
            ELSE [k \in DOMAIN named |-> named[k][1]]]

\* config.py lines 154-170
DisplayOptions(file, table) ==
    LET raw_options == IF Truthy(file.display)
                       THEN Split(file.display[1], 1, << >>) ELSE << >>
    IN  IF \E k \in DOMAIN raw_options : ~is_display_option(raw_options[k], table)
        THEN [exc |-> "WaybarCryptoException"]
        ELSE [exc |-> "none",
              display_options |->
                IF raw_options = << >> THEN DEFAULT_DISPLAY_OPTIONS
                ELSE [k \in DOMAIN raw_options |-> raw_options[k][1]]]

\* config.py lines 71-193
read_config(file, environ, table) ==
    LET key == ApiKey(file, environ)
        coins == Coins(file.sections, 1, << >>, table)
        display == DisplayOptions(file, table)
    IN  IF key.exc # "none" THEN [exc |-> key.exc, table |-> table]
        ELSE IF coins.exc # "none" THEN [exc |-> coins.exc, table |-> table]
        ELSE IF display.exc # "none" THEN [exc |-> display.exc, table |-> table]
        ELSE [exc |-> "none", table |-> table,
              config |->
                [general |->
                    [api_key |-> key.api_key,
                     currency_symbol |-> file.currency_symbol,
                     currency |-> upper(file.currency),
                     display_options_format |->
                        FormatOverrides(file.formats, table),
                     display_options |-> display.display_options,
                     spacer_symbol |->
                        IF file.spacer_symbol # << >>
                        THEN file.spacer_symbol[1] ELSE << >>],
                 coins |-> coins.coins]]

\* waybar_crypto.py (single file) lines 161-183 for one section
LegacyConfigCoin(section) ==
    [icon |-> section.icon,
     in_tooltip |-> IF section.in_tooltip # << >> THEN section.in_tooltip[1]
                    ELSE DEFAULT_COIN_CONFIG_TOOLTIP,
     price_precision |-> CoinPrecision(section, "price_precision"),
     change_precision |-> CoinPrecision(section, "change_precision"),
     volume_precision |-> CoinPrecision(section, "volume_precision")]

\* waybar_crypto.py (single file) lines 160-183, from the k-th section on
RECURSIVE LegacyCoins(_, _, _)
LegacyCoins(sections, k, coins) ==
    IF k > Len(sections) THEN [exc |-> "none", coins |-> coins]
    ELSE IF BadPrecision(sections[k]) THEN [exc |-> "WaybarCryptoException"]
    ELSE LegacyCoins(sections, k + 1,
                     DictSet(coins, upper(sections[k].name),
                             LegacyConfigCoin(sections[k])))

\* waybar_crypto.py (single file) lines 210-221
LegacyApiKey(file, environ) ==
    LET api_key == IF file.api_key = <<<< >>>> THEN << >> ELSE file.api_key
        chosen == IF environ = << >> THEN api_key ELSE environ
    IN  IF chosen = << >> THEN [exc |-> "NoApiKeyException"]
        ELSE [exc |-> "none", api_key |-> chosen[1]]

\* waybar_crypto.py (single file) lines 206-208: the dict is not copied, the
\* assignment is to the module-level dict
LegacyFormatTable(table, currency_symbol) ==
    [table EXCEPT !["price"] = currency_symbol \o @]

\* waybar_crypto.py (single file) lines 138-235
legacy_read_config(file, environ, table) ==
    LET coins == LegacyCoins(file.sections, 1, << >>)
        display == DisplayOptions(file, table)
        prefixed == LegacyFormatTable(table, file.currency_symbol)
        key == LegacyApiKey(file, environ)
    IN  IF coins.exc # "none" THEN [exc |-> coins.exc, table |-> table]
        ELSE IF display.exc # "none" THEN [exc |-> display.exc, table |-> table]
        ELSE IF key.exc # "none" THEN [exc |-> key.exc, table |-> prefixed]
        ELSE [exc |-> "none", table |-> prefixed,
              config |->
                [general |->
                    [currency |-> upper(file.currency),
                     currency_symbol |-> file.currency_symbol,
                     spacer_symbol |->
                        IF file.spacer_symbol # << >>
                        THEN file.spacer_symbol[1] ELSE << >>,
                     display_options |-> display.display_options,
                     display_options_format |-> prefixed,
                     api_key |-> key.api_key],
                 coins |-> coins.coins]]

\* the configuration files of the model
SectionBT ==
    [name |-> <<"B", "T">>, icon |-> <<BitcoinSign>>, in_tooltip |-> << >>,
     precisions |->
        [o \in COIN_PRECISION_OPTIONS |->
            CASE o = "price_precision" -> 1
              [] o = "change_precision" -> 2
              [] o = "volume_precision" -> 3],
     formats |-> [o \in {} |-> << >>]]

SectionLower ==
    [name |-> <<"b", "t">>, icon |-> << >>, in_tooltip |-> <<TRUE>>,
     precisions |-> [o \in {"price_precision"} |-> MIN_PRECISION],
     formats |->
        [o \in {"percent_change_1h"} |-> <<"1", "h", " ", FLOAT_FORMATTER>>]]

SectionBad ==
    [name |-> <<"X">>, icon |-> <<"X">>, in_tooltip |-> <<FALSE>>,
     precisions |-> [o \in {"volume_precision"} |-> MIN_PRECISION - 1],
     formats |-> [o \in {"price"} |-> <<"$", FLOAT_FORMATTER>>]]

SectionLists ==
    {<<SectionBT>>, <<SectionBT, SectionLower>>, <<SectionBT, SectionBad>>}

DisplayStrings ==
    {<< >>,
     <<<< >>>>,
     <<<<"price">>>>,
     <<<<"percent_change_1h", ",", "price">>>>,
     <<<<"price", ",", "notvalid">>>>,
     <<<<"price", ",">>>>}

\* format_ options of [general]: none, or one for price and one that names
\* no metric
FileFormats ==
    {[o \in {} |-> << >>],
     [o \in {"price", "bogus"} |-> <<EuroSign, " ", FLOAT_FORMATTER>>]}

ConfigFiles ==
    [api_key : {<< >>, <<<< >>>>, <<<<"f">>>>},
     currency : {<<"e", "u", "r">>},
     currency_symbol : {<<EuroSign>>, <<"$">>},
     spacer_symbol : {<< >>},
     display : DisplayStrings,
     formats : FileFormats,
     sections : SectionLists]

Environments == {<< >>, <<<< >>>>, <<<<"e">>>>}

NoFile ==
    [api_key |-> << >>, currency |-> << >>, currency_symbol |-> << >>,
     spacer_symbol |-> << >>, display |-> << >>,
     formats |-> [o \in {} |-> << >>], sections |-> << >>]

\* the state of a process that calls no read_config
IdleConfigVars ==
    /\ module = "package"
    /\ cfp = NoFile
    /\ env = << >>
    /\ format_table = DEFAULT_DISPLAY_OPTIONS_FORMAT
    /\ calls = 0

-----------------------------------------------------------------------------
(* waybar_crypto.py: WaybarCrypto.coinmarketcap_latest.  What requests.get *)
(* yields is [timeout |-> TRUE] or [timeout, status_code, json, body]:     *)
(* json tells whether the body parses as JSON, body is the parsed object,  *)
(* a record with the keys the provider sent.  A status object holds        *)
(* error_code and error_message, each or neither.  An optional attribute   *)
(* of the exception is << >> for None and <<value>> otherwise.             *)

DEFAULT_ERROR_MESSAGE == "coinmarketcap API error"

\* mutant: the provider's values are used only when both are there
ApiErrorBothOrNeither(response_status) ==
    IF {"error_code", "error_message"} \subseteq DOMAIN response_status
    THEN [error_code |-> <<response_status.error_code>>,
          message |-> response_status.error_message]
    ELSE [error_code |-> << >>, message |-> DEFAULT_ERROR_MESSAGE]

\* lines 118-124
ApiError(response_status) ==
    [error_code |->
        IF "error_code" \in DOMAIN response_status
        THEN <<response_status.error_code>> ELSE << >>,
     message |->
        IF "error_message" \in DOMAIN response_status
        THEN response_status.error_message ELSE DEFAULT_ERROR_MESSAGE]

\* lines 104-128
CoinmarketcapLatestResult(resp) ==
    IF resp.timeout
    THEN [exc |-> "WaybarCryptoException",
          info |-> [message |-> "request timed out"]]
    ELSE IF ~resp.json
    THEN [exc |-> "WaybarCryptoException",
          info |-> [message |-> "could not parse API response body as JSON"]]
    ELSE IF resp.status_code # 200
    THEN IF "status" \notin DOMAIN resp.body
         THEN [exc |-> "KeyError", info |-> [message |-> "status"]]
         ELSE [exc |-> "CoinmarketcapApiException",
               info |-> ApiError(resp.body.status)]
    ELSE [exc |-> "none", value |-> resp.body]

\* the status objects, status codes and responses of the model
ErrorCodes == {1001, 1008}
ErrorMessages == {"", "This API Key is invalid."}

StatusObjects ==
    [error_code : ErrorCodes \cup {0}, error_message : ErrorMessages]
    \cup [error_code : ErrorCodes]
    \cup [error_message : ErrorMessages]
    \cup {[elapsed |-> 1]}

StatusCodes == {200, 401, 429, 500}

HttpResponses ==
    {[timeout |-> TRUE]}
    \cup [timeout : {FALSE}, status_code : StatusCodes, json : {FALSE},
          body : {[text |-> "<html>"]}]
    \cup [timeout : {FALSE}, status_code : StatusCodes, json : {TRUE},
          body : [status : StatusObjects,
                  data : {d \in DataDicts : Len(d) <= 1}]
                 \cup {[message |-> "gateway"]}]

NoResponse == [timeout |-> FALSE, status_code |-> 0, json |-> FALSE,
               body |-> [text |-> ""]]

NoExcInfo == [message |-> ""]

\* the state of a process that calls no coinmarketcap_latest
IdleFetchVars ==
    /\ response = NoResponse
    /\ exc_info = NoExcInfo

\* lines 97-107: the request requests.get sends, with its API key header
Request(cfg) == [X_CMC_PRO_API_KEY |-> cfg.general.api_key]

\* the state of a process before main: the path names a file, nothing sent
IdleMainVars ==
    /\ isfile = TRUE
    /\ requests = << >>

-----------------------------------------------------------------------------
(* __main__.py: main, from the call of waybar_output on. *)

NoOutput == [text |-> << >>, tooltip |-> << >>, class |-> << >>]

\* waybar_crypto.py (single file) lines 312-324, from the k-th option on
RECURSIVE LegacyRenderOptions(_, _, _, _, _, _)
LegacyRenderOptions(output, k, display_options, display_options_format, coin_config, pair_info) ==
    IF k > Len(display_options) THEN [exc |-> "none", output |-> output]
    ELSE LET display_option == display_options[k]
             precision == Precision(display_option, coin_config)
         IN  IF display_option \notin DOMAIN pair_info
             THEN [exc |-> "KeyError"]
             ELSE IF display_option \notin DOMAIN display_options_format
             THEN [exc |-> "KeyError"]
             ELSE LegacyRenderOptions(
                    output \o Format(<<" ">>
                                        \o display_options_format[display_option],
                                     precision, pair_info[display_option]),
                    k + 1, display_options, display_options_format,
                    coin_config, pair_info)

\* waybar_crypto.py (single file) lines 302-324: the block of one coin
LegacyCoinOutput(cfg, quotes, coin_name, coin_config) ==
    IF "data" \notin DOMAIN quotes THEN [exc |-> "KeyError"]
    ELSE LET data == quotes.data
             keys == {k \in DOMAIN data : data[k][1] = upper(coin_name)}
         IN  IF keys = {} THEN [exc |-> "KeyError"]
             ELSE LET coin_data == data[CHOOSE k \in keys : TRUE][2]
                  IN  IF cfg.general.currency \notin DOMAIN coin_data.quote
                      THEN [exc |-> "KeyError"]
                      ELSE LegacyRenderOptions(
                             coin_config.icon, 1, cfg.general.display_options,
                             cfg.general.display_options_format, coin_config,
                             coin_data.quote[cfg.general.currency])

\* mutant: the object keeps its output_obj from one call to the next
WaybarOutputEnterKeep ==
    /\ pc = "main"
    /\ pc' = "loop"
    /\ coin_idx' = 0
    /\ output_obj' = IF output_obj = NoOutput
                     THEN [text |-> << >>, tooltip |-> << >>,
                           class |-> CLASS_NAME]
                     ELSE output_obj
    /\ UNCHANGED <<config, quotes_latest, last_output, raised, stdout, symbol,
                   found, results, configVars, fetchVars, mainVars>>

\* waybar_crypto.py lines 131-142
WaybarOutputEnter ==
    /\ pc = "main"
    /\ pc' = "loop"
    /\ coin_idx' = 0
    /\ output_obj' = [text |-> << >>, tooltip |-> << >>, class |-> CLASS_NAME]
    /\ UNCHANGED <<config, quotes_latest, last_output, raised, stdout, symbol,
                   found, results, configVars, fetchVars, mainVars>>

\* waybar_crypto.py lines 146-184: one iteration of the loop over the coins
\* (lines 301-333 of the single file)
WaybarOutputCoin ==
    /\ pc = "loop"
    /\ coin_idx < Len(config.coins)
    /\ LET coin_name == config.coins[coin_idx + 1][1]
           coin_config == config.coins[coin_idx + 1][2]
           res == IF module = "legacy"
                  THEN LegacyCoinOutput(config, quotes_latest, coin_name,
                                        coin_config)
                  ELSE CoinOutput(config, quotes_latest, coin_name, coin_config)
       IN  \/ /\ res.exc = "none"
              /\ output_obj' = Accumulate(output_obj, coin_config,
                                          Spacer(config.general.spacer_symbol),
                                          res.output)
              /\ last_output' = res.output
              /\ coin_idx' = coin_idx + 1
              /\ UNCHANGED <<pc, raised, results>>
           \/ /\ res.exc # "none"
              /\ raised' = res.exc
              /\ results' = Append(results, [exc |-> res.exc])
              /\ pc' = "raised"
              /\ UNCHANGED <<output_obj, last_output, coin_idx>>
    /\ UNCHANGED <<config, quotes_latest, stdout, symbol, found, configVars, fetchVars, mainVars>>

\* waybar_crypto.py line 186
WaybarOutputReturn ==
    /\ pc = "loop"
    /\ coin_idx = Len(config.coins)
    /\ pc' = "returned"
    /\ results' = Append(results, [exc |-> "none", output |-> output_obj])
    /\ UNCHANGED <<config, quotes_latest, coin_idx, output_obj, last_output,
                   raised, stdout, symbol, found, configVars, fetchVars, mainVars>>

\* __main__.py line 65
MainWrite ==
    /\ pc = "returned"
    /\ stdout' = Append(stdout, output_obj)
    /\ pc' = "done"
    /\ UNCHANGED <<config, quotes_latest, coin_idx, output_obj, last_output,
                   raised, symbol, found, results, configVars, fetchVars, mainVars>>

Init ==
    /\ config \in Configs
    /\ quotes_latest \in Responses
    /\ pc = "main"
    /\ coin_idx = 0
    /\ output_obj = NoOutput
    /\ last_output = << >>
    /\ raised = "none"
    /\ stdout = << >>
    /\ symbol = << >>
    /\ found = NotFound
    /\ results = << >>
    /\ IdleConfigVars
    /\ IdleFetchVars
    /\ IdleMainVars

Next ==
    \/ WaybarOutputEnter
    \/ WaybarOutputCoin
    \/ WaybarOutputReturn
    \/ MainWrite

Spec == Init /\ [][Next]_vars

-----------------------------------------------------------------------------
(* A caller that calls waybar_output again on the same object with the     *)
(* same response, as a long-lived service or a test session does.          *)

WaybarOutputAgain ==
    /\ pc \in {"returned", "raised"}
    /\ Len(results) < MaxRuns
    /\ pc' = "main"
    /\ raised' = "none"
    /\ UNCHANGED <<config, renderVars, configVars, fetchVars, mainVars>>

NextRepeat == Next \/ WaybarOutputAgain

SpecRepeat == Init /\ [][NextRepeat]_vars

-----------------------------------------------------------------------------
(* A direct call of _find_coin_data on a response and a symbol. *)

LookupSymbols == CoinNames \cup ResponseKeys \cup {<<"T">>}

IdleConfig ==
    [general |->
        [api_key |-> <<"k">>, currency_symbol |-> <<EuroSign>>,
         currency |-> EUR, display_options_format |-> NoFormats,
         display_options |-> DEFAULT_DISPLAY_OPTIONS, spacer_symbol |-> << >>],
     coins |-> << >>]

InitLookup ==
    /\ config = IdleConfig
    /\ quotes_latest \in Responses
    /\ symbol \in LookupSymbols
    /\ found = NotFound
    /\ pc = "lookup"
    /\ coin_idx = 0
    /\ output_obj = NoOutput
    /\ last_output = << >>
    /\ raised = "none"
    /\ stdout = << >>
    /\ results = << >>
    /\ IdleConfigVars
    /\ IdleFetchVars
    /\ IdleMainVars

\* waybar_crypto.py lines 61-88
FindCoinData ==
    /\ pc = "lookup"
    /\ found' = _find_coin_data(quotes_latest.data, symbol)
    /\ raised' = IF found'.ok THEN "none" ELSE "WaybarCryptoException"
    /\ pc' = "looked_up"
    /\ UNCHANGED <<config, quotes_latest, coin_idx, output_obj, last_output,
                   stdout, symbol, results, configVars, fetchVars, mainVars>>

NextLookup == FindCoinData

SpecLookup == InitLookup /\ [][NextLookup]_vars

-----------------------------------------------------------------------------
(* A process that calls read_config up to MaxCalls times, as the tests'    *)
(* fixtures do; the process runs either the package or the single file.    *)
(* config is what the latest call returned, IdleConfig when it raised.     *)

InitReadConfig ==
    /\ module \in {"package", "legacy"}
    /\ env \in Environments
    /\ cfp = NoFile
    /\ format_table = DEFAULT_DISPLAY_OPTIONS_FORMAT
    /\ calls = 0
    /\ config = IdleConfig
    /\ pc = "start"
    /\ raised = "none"
    /\ quotes_latest = [data |-> << >>]
    /\ coin_idx = 0
    /\ output_obj = NoOutput
    /\ last_output = << >>
    /\ stdout = << >>
    /\ symbol = << >>
    /\ found = NotFound
    /\ results = << >>
    /\ IdleFetchVars
    /\ IdleMainVars

\* config.py lines 71-193
ReadConfig ==
    /\ module = "package"
    /\ calls < MaxCalls
    /\ \E file \in ConfigFiles :
        LET res == read_config(file, env, format_table)
        IN  /\ cfp' = file
            /\ calls' = calls + 1
            /\ format_table' = res.table
            /\ \/ /\ res.exc = "none"
                  /\ config' = res.config
                  /\ raised' = "none"
                  /\ pc' = "config_read"
               \/ /\ res.exc # "none"
                  /\ raised' = res.exc
                  /\ pc' = "config_failed"
                  /\ config' = IdleConfig
    /\ UNCHANGED <<module, env, renderVars, fetchVars, mainVars>>

\* waybar_crypto.py (single file) lines 138-235
LegacyReadConfig ==
    /\ module = "legacy"
    /\ calls < MaxCalls
    /\ \E file \in ConfigFiles :
        LET res == legacy_read_config(file, env, format_table)
        IN  /\ cfp' = file
            /\ calls' = calls + 1
            /\ format_table' = res.table
            /\ \/ /\ res.exc = "none"
                  /\ config' = res.config
                  /\ raised' = "none"
                  /\ pc' = "config_read"
               \/ /\ res.exc # "none"
                  /\ raised' = res.exc
                  /\ pc' = "config_failed"
                  /\ config' = IdleConfig
    /\ UNCHANGED <<module, env, renderVars, fetchVars, mainVars>>

NextReadConfig == ReadConfig \/ LegacyReadConfig

SpecReadConfig == InitReadConfig /\ [][NextReadConfig]_vars

-----------------------------------------------------------------------------
(* A call of coinmarketcap_latest, on what requests.get yields. *)

InitFetch ==
    /\ config = IdleConfig
    /\ quotes_latest = [data |-> << >>]
    /\ response \in HttpResponses
    /\ exc_info = NoExcInfo
    /\ pc = "request"
    /\ raised = "none"
    /\ coin_idx = 0
    /\ output_obj = NoOutput
    /\ last_output = << >>
    /\ stdout = << >>
    /\ symbol = << >>
    /\ found = NotFound
    /\ results = << >>
    /\ IdleConfigVars
    /\ IdleMainVars

\* waybar_crypto.py lines 90-128
CoinmarketcapLatest ==
    /\ pc = "request"
    /\ requests' = Append(requests, Request(config))
    /\ LET res == CoinmarketcapLatestResult(response)
       IN  \/ /\ res.exc = "none"
              /\ quotes_latest' = res.value
              /\ pc' = "fetched"
              /\ UNCHANGED <<raised, exc_info>>
           \/ /\ res.exc # "none"
              /\ raised' = res.exc
              /\ exc_info' = res.info
              /\ pc' = "fetch_failed"
              /\ UNCHANGED quotes_latest
    /\ UNCHANGED <<config, coin_idx, output_obj, last_output, stdout, symbol,
                   found, results, response, configVars, isfile>>

NextFetch == CoinmarketcapLatest

SpecFetch == InitFetch /\ [][NextFetch]_vars

-----------------------------------------------------------------------------
(* A run of waybar_output for one coin and one metric: each of the nine    *)
(* metrics, with each choice of the three precisions of the coin.          *)

PrecisionConfigs ==
    {[general |->
        [api_key |-> <<"k">>, currency_symbol |-> <<EuroSign>>,
         currency |-> EUR, display_options_format |-> AllFormats,
         display_options |-> <<o>>, spacer_symbol |-> << >>],
      coins |->
        <<<<BT, [icon |-> <<BitcoinSign>>, in_tooltip |-> FALSE,
                 price_precision |-> p, change_precision |-> c,
                 volume_precision |-> v,
                 display_options_format |-> NoFormats]>>>>] :
        o \in DisplayOption, p \in 0..MaxPrecision, c \in 0..MaxPrecision,
        v \in 0..MaxPrecision}

\* the response: the quote of the coin, whole or without percent_change_1h
PrecisionResponses ==
    {[data |-> <<<<BT, [symbol |-> BT, quote |-> [c \in {EUR} |-> entry]]>>>>] :
        entry \in {BtcEntry, PartialEntry}}

InitPrecision ==
    /\ config \in PrecisionConfigs
    /\ quotes_latest \in PrecisionResponses
    /\ pc = "main"
    /\ coin_idx = 0
    /\ output_obj = NoOutput
    /\ last_output = << >>
    /\ raised = "none"
    /\ stdout = << >>
    /\ symbol = << >>
    /\ found = NotFound
    /\ results = << >>
    /\ IdleConfigVars
    /\ IdleFetchVars
    /\ IdleMainVars

SpecPrecision == InitPrecision /\ [][Next]_vars

-----------------------------------------------------------------------------
(* __main__.py: a whole run of main (lines 359-372 of the single file):    *)
(* the check of the path, read_config, the constructor, the fetch, the     *)
(* rendering and the write.  A run that ends with an exception stops at    *)
(* the position that tells which step raised it.                           *)

\* what requests.get yields in a run of main
MainResponses ==
    {[timeout |-> TRUE]}
    \cup [timeout : {FALSE}, status_code : {200, 500}, json : {FALSE},
          body : {[text |-> "<html>"]}]
    \cup [timeout : {FALSE}, status_code : {401}, json : {TRUE},
          body : {[status |-> [error_code |-> 1001,
                               error_message |-> "This API Key is invalid."]],
                  [message |-> "gateway"]}]
    \cup [timeout : {FALSE}, status_code : {200}, json : {TRUE},
          body : [status : {[elapsed |-> 1]}, data : DataDicts]
                 \cup {[message |-> "gateway"]}]

InitMain ==
    /\ module \in {"package", "legacy"}
    /\ env \in Environments
    /\ isfile \in BOOLEAN
    /\ requests = << >>
    /\ cfp = NoFile
    /\ format_table = DEFAULT_DISPLAY_OPTIONS_FORMAT
    /\ calls = 0
    /\ config = IdleConfig
    /\ pc = "parse_args"
    /\ raised = "none"
    /\ quotes_latest = [data |-> << >>]
    /\ coin_idx = 0
    /\ output_obj = NoOutput
    /\ last_output = << >>
    /\ stdout = << >>
    /\ symbol = << >>
    /\ found = NotFound
    /\ results = << >>
    /\ IdleFetchVars

\* mutant: the path is not checked
MainIsFileUnchecked ==
    /\ pc = "parse_args"
    /\ pc' = "read_config"
    /\ UNCHANGED <<config, raised, renderVars, configVars, fetchVars, mainVars>>

\* __main__.py lines 54-57
MainIsFile ==
    /\ pc = "parse_args"
    /\ \/ /\ isfile
          /\ pc' = "read_config"
          /\ UNCHANGED raised
       \/ /\ ~isfile
          /\ raised' = "WaybarCryptoException"
          /\ pc' = "no_file"
    /\ UNCHANGED <<config, renderVars, configVars, fetchVars, mainVars>>

\* __main__.py line 59
MainReadConfig ==
    /\ pc = "read_config"
    /\ \E file \in ConfigFiles :
        LET res == IF module = "legacy"
                   THEN legacy_read_config(file, env, format_table)
                   ELSE read_config(file, env, format_table)
        IN  /\ cfp' = file
            /\ calls' = calls + 1
            /\ format_table' = res.table
            /\ \/ /\ res.exc = "none"
                  /\ config' = res.config
                  /\ pc' = "construct"
                  /\ UNCHANGED raised
               \/ /\ res.exc # "none"
                  /\ raised' = res.exc
                  /\ pc' = "config_failed"
                  /\ UNCHANGED config
    /\ UNCHANGED <<module, env, renderVars, fetchVars, mainVars>>

\* mutant: the constructor accepts every key
MainConstructUnchecked ==
    /\ pc = "construct"
    /\ pc' = "fetch"
    /\ UNCHANGED <<config, raised, renderVars, configVars, fetchVars, mainVars>>

\* __main__.py line 60, waybar_crypto.py lines 55-59
MainConstruct ==
    /\ pc = "construct"
    /\ \/ /\ config.general.api_key = << >>
          /\ raised' = "NoApiKeyException"
          /\ pc' = "no_key"
       \/ /\ config.general.api_key # << >>
          /\ pc' = "fetch"
          /\ UNCHANGED raised
    /\ UNCHANGED <<config, renderVars, configVars, fetchVars, mainVars>>

\* mutant: a failed request is tried once more
MainFetchRetry ==
    /\ pc = "fetch"
    /\ requests' = Append(requests, Request(config))
    /\ \E resp \in MainResponses :
        LET res == CoinmarketcapLatestResult(resp)
        IN  /\ response' = resp
            /\ \/ /\ res.exc = "none"
                  /\ quotes_latest' = res.value
                  /\ pc' = "main"
                  /\ UNCHANGED <<raised, exc_info>>
               \/ /\ res.exc # "none"
                  /\ requests = << >>
                  /\ UNCHANGED <<pc, raised, exc_info, quotes_latest>>
               \/ /\ res.exc # "none"
                  /\ requests # << >>
                  /\ raised' = res.exc
                  /\ exc_info' = res.info
                  /\ pc' = "fetch_failed"
                  /\ UNCHANGED quotes_latest
    /\ UNCHANGED <<config, coin_idx, output_obj, last_output, stdout, symbol,
                   found, results, configVars, isfile>>

\* __main__.py line 61, waybar_crypto.py lines 90-128
MainFetch ==
    /\ pc = "fetch"
    /\ requests' = Append(requests, Request(config))
    /\ \E resp \in MainResponses :
        LET res == CoinmarketcapLatestResult(resp)
        IN  /\ response' = resp
            /\ \/ /\ res.exc = "none"
                  /\ quotes_latest' = res.value
                  /\ pc' = "main"
                  /\ UNCHANGED <<raised, exc_info>>
               \/ /\ res.exc # "none"
                  /\ raised' = res.exc
                  /\ exc_info' = res.info
                  /\ pc' = "fetch_failed"
                  /\ UNCHANGED quotes_latest
    /\ UNCHANGED <<config, coin_idx, output_obj, last_output, stdout, symbol,
                   found, results, configVars, isfile>>

\* __main__.py lines 53-65: waybar_output and the write are the steps of Next
NextMain ==
    \/ MainIsFile
    \/ MainReadConfig
    \/ MainConstruct
    \/ MainFetch
    \/ Next

SpecMain == InitMain /\ [][NextMain]_vars

-----------------------------------------------------------------------------
(* Vocabulary of the properties. *)

CoinName(k) == config.coins[k][1]
CoinCfg(k) == config.coins[k][2]
Requested == config.general.display_options
GlobalOverrides == config.general.display_options_format
CoinOverrides(k) == CoinCfg(k).display_options_format

\* two characters that are the same letter
SameLetter(c, d) ==
    \/ c = d
    \/ \E k \in DOMAIN UpperChars : {c, d} = {UpperChars[k], LowerChars[k]}

EqualIgnoringCase(s, t) ==
    /\ Len(s) = Len(t)
    /\ \A k \in DOMAIN s : SameLetter(s[k], t[k])

\* the response has a key for the name, whatever its case
HasKey(name) ==
    \E k \in DOMAIN quotes_latest.data :
        EqualIgnoringCase(quotes_latest.data[k][1], name)

\* the record the lookup of coin k yields, and its quote in the currency
Record(k) == _find_coin_data(quotes_latest.data, CoinName(k)).value
HasCurrency(k) == config.general.currency \in DOMAIN Record(k).quote
PairInfo(k) == Record(k).quote[config.general.currency]

\* coin k has a record, a quote in the currency and every requested field
CleanCoin(k) ==
    /\ HasKey(CoinName(k))
    /\ HasCurrency(k)
    /\ \A j \in DOMAIN Requested : Requested[j] \in DOMAIN PairInfo(k)

\* the run ended with an exception while coin k was being rendered
RaisedAt(k) == pc = "raised" /\ coin_idx = k - 1

\* coin k is the coin the loop rendered last
RenderedLast(k) == pc # "main" /\ coin_idx = k

Returned == pc \in {"returned", "done"}

NeitherOverride(k, o) ==
    o \notin DOMAIN GlobalOverrides /\ o \notin DOMAIN CoinOverrides(k)

\* The format the four layers resolve to: the default, the currency symbol
\* before the default price, the global override, the override of the coin.
ResolvedFormat(k, o) ==
    IF o \in DOMAIN CoinOverrides(k) THEN CoinOverrides(k)[o]
    ELSE IF o \in DOMAIN GlobalOverrides THEN GlobalOverrides[o]
    ELSE IF o = "price"
    THEN config.general.currency_symbol \o DEFAULT_DISPLAY_OPTIONS_FORMAT[o]
    ELSE DEFAULT_DISPLAY_OPTIONS_FORMAT[o]

\* the requested metrics of coin k from the j-th on, each after one space
RECURSIVE ResolvedMetrics(_, _)
ResolvedMetrics(k, j) ==
    IF j > Len(Requested) THEN << >>
    ELSE <<" ">>
         \o Format(ResolvedFormat(k, Requested[j]),
                   Precision(Requested[j], CoinCfg(k)),
                   PairInfo(k)[Requested[j]])
         \o ResolvedMetrics(k, j + 1)

ResolvedBlock(k) == CoinCfg(k).icon \o ResolvedMetrics(k, 1)

\* the blocks of the first n coins that are placed as tip says, in order
RECURSIVE Blocks(_, _)
Blocks(n, tip) ==
    IF n = 0 THEN << >>
    ELSE IF CoinCfg(n).in_tooltip = tip
    THEN Append(Blocks(n - 1, tip), ResolvedBlock(n))
    ELSE Blocks(n - 1, tip)

RECURSIVE Join(_, _)
Join(blocks, sep) ==
    IF blocks = << >> THEN << >>
    ELSE IF Len(blocks) = 1 THEN blocks[1]
    ELSE blocks[1] \o sep \o Join(Tail(blocks), sep)

RECURSIVE Icons(_)
Icons(n) == IF n = 0 THEN << >> ELSE Icons(n - 1) \o CoinCfg(n).icon

StartsWith(s, prefix) ==
    Len(prefix) <= Len(s) /\ SubSeq(s, 1, Len(prefix)) = prefix

\* The precision the routing rule gives metric o of coin k: the volume
\* precision for the two volume metrics, the change precision for the six
\* percent changes, the price precision for the price.
RoutedPrecision(k, o) ==
    IF o \in {"volume_24h", "volume_change_24h"} THEN CoinCfg(k).volume_precision
    ELSE IF o = "price" THEN CoinCfg(k).price_precision
    ELSE CoinCfg(k).change_precision

\* the requested metrics of coin k from the j-th on at the routed precisions
RECURSIVE RoutedMetrics(_, _)
RoutedMetrics(k, j) ==
    IF j > Len(Requested) THEN << >>
    ELSE <<" ">>
         \o Format(ResolvedFormat(k, Requested[j]),
                   RoutedPrecision(k, Requested[j]),
                   PairInfo(k)[Requested[j]])
         \o RoutedMetrics(k, j + 1)

\* the substituted templates of coin k, one for each requested metric
Pieces(k) ==
    [j \in DOMAIN Requested |->
        Format(ResolvedFormat(k, Requested[j]),
               Precision(Requested[j], CoinCfg(k)),
               PairInfo(k)[Requested[j]])]

\* each piece from the j-th on after one space
RECURSIVE Spaced(_, _)
Spaced(pieces, j) ==
    IF j > Len(pieces) THEN << >>
    ELSE <<" ">> \o pieces[j] \o Spaced(pieces, j + 1)

RECURSIVE TotalLen(_, _)
TotalLen(pieces, j) ==
    IF j > Len(pieces) THEN 0 ELSE Len(pieces[j]) + TotalLen(pieces, j + 1)

EndsWith(s, suffix) ==
    /\ Len(suffix) <= Len(s)
    /\ SubSeq(s, Len(s) - Len(suffix) + 1, Len(s)) = suffix

\* exceptions.py: WaybarCryptoException and its subclasses
WaybarCryptoExceptions ==
    {"WaybarCryptoException", "NoApiKeyException", "CoinmarketcapApiException"}

\* the names written in the display option of the latest file, in order
DisplayNames ==
    IF cfp.display = << >> THEN << >>
    ELSE SelectSeq(cfp.display[1], LAMBDA t : t # ",")

\* the display option of the latest file has an entry that is no metric: a
\* name outside the nine, or nothing before, between or after commas
DisplayUnrecognised ==
    /\ cfp.display # << >>
    /\ cfp.display[1] # << >>
    /\ LET d == cfp.display[1]
       IN  \/ \E k \in DOMAIN d : d[k] \notin DisplayOption \cup {","}
           \/ d[1] = ","
           \/ d[Len(d)] = ","
           \/ \E k \in 1..(Len(d) - 1) : d[k] = "," /\ d[k + 1] = ","

\* a section of the latest file configures a precision below zero
NegativePrecision ==
    \E j \in DOMAIN cfp.sections :
        \E o \in DOMAIN cfp.sections[j].precisions :
            cfp.sections[j].precisions[o] < 0

\* the key read_config files a section under
SectionKey(j) ==
    IF module = "legacy" THEN upper(cfp.sections[j].name)
    ELSE cfp.sections[j].name

\* the section of the latest file that coin k of the Config comes from: the
\* last one filed under its key
SourceSection(k) ==
    LET js == {j \in DOMAIN cfp.sections : SectionKey(j) = CoinName(k)}
    IN  cfp.sections[CHOOSE j \in js : \A i \in js : i <= j]

\* no character of s is a lower-case letter
IsUpper(s) ==
    \A k \in DOMAIN s : \A i \in DOMAIN LowerChars : s[k] # LowerChars[i]

-----------------------------------------------------------------------------
(* Properties. *)

\* C1  Fallback law: when waybar_output returns for a configuration with at
\* least one coin whose coins are all placed in the tooltip, the text is the
\* concatenation of the icons of all coins in configured order.
FallbackLaw ==
    (/\ Returned
     /\ Len(config.coins) >= 1
     /\ \A k \in DOMAIN config.coins : CoinCfg(k).in_tooltip)
    => output_obj.text = Icons(Len(config.coins))

\* C2  Default layer: a coin with a record, a quote and all requested fields
\* whose requested metrics have a global override or no override at all, one
\* of them none at all, is rendered without failure, the metrics without an
\* override by the built-in default template.
DefaultLayer ==
    \A k \in DOMAIN config.coins :
        (/\ CleanCoin(k)
         /\ \A j \in DOMAIN Requested :
                \/ Requested[j] \in DOMAIN GlobalOverrides
                \/ NeitherOverride(k, Requested[j])
         /\ \E j \in DOMAIN Requested : NeitherOverride(k, Requested[j]))
        => /\ ~RaisedAt(k)
           /\ RenderedLast(k) => last_output = ResolvedBlock(k)

\* C3  Override precedence: in the block of every rendered coin a metric
\* with an override of the coin is rendered from that override, also when a
\* different global override exists, and every other metric is rendered from
\* the global override.
OverridePrecedence ==
    \A k \in DOMAIN config.coins :
        RenderedLast(k) => last_output = ResolvedBlock(k)

OverridePrecedenceWitness ==
    /\ pc = "done"
    /\ "price" \in {Requested[j] : j \in DOMAIN Requested}
    /\ "price" \in DOMAIN GlobalOverrides
    /\ \E k \in DOMAIN config.coins :
        /\ RenderedLast(k)
        /\ "price" \in DOMAIN CoinOverrides(k)
        /\ CoinOverrides(k)["price"] # GlobalOverrides["price"]
    /\ \E k \in DOMAIN config.coins : "price" \notin DOMAIN CoinOverrides(k)

\* C4  Currency prefix: a coin with a record, a quote and all requested
\* fields, for which price is requested and overridden neither globally nor
\* for the coin, is rendered without failure with the currency symbol right
\* before the price at price_precision decimals; one coin BTC with icon
\* BitcoinSign, price precision 1 and price 62885.476 gives the text
\* BitcoinSign, space, EuroSign, 62885.5.
CurrencyPrefix ==
    /\ \A k \in DOMAIN config.coins :
        (/\ CleanCoin(k)
         /\ \E j \in DOMAIN Requested : Requested[j] = "price"
         /\ NeitherOverride(k, "price")
         /\ \A j \in DOMAIN Requested :
                Requested[j] # "price" => Requested[j] \in DOMAIN GlobalOverrides)
        => /\ ~RaisedAt(k)
           /\ RenderedLast(k) => last_output = ResolvedBlock(k)
    /\ (/\ Returned
        /\ Len(config.coins) = 1
        /\ CoinName(1) = BT
        /\ ~CoinCfg(1).in_tooltip
        /\ Requested = <<"price">>
        /\ GlobalOverrides = NoFormats
        /\ HasKey(BT)
        /\ quotes_latest.data[1][1] = BT)
       => output_obj.text =
            <<BitcoinSign, " ", EuroSign, "6", "2", "8", "8", "5", ".", "5">>

\* C5  No stacking across reuse: after n >= 1 successive read_config calls
\* of one process the module-level table DEFAULT_DISPLAY_OPTIONS_FORMAT is as
\* it was before the first call, and, when the latest file overrides no
\* price format, the price template handed to the renderer is the currency
\* symbol of the latest file followed by the float field, once.
NoStacking ==
    calls >= 1 =>
        /\ format_table = DEFAULT_DISPLAY_OPTIONS_FORMAT
        /\ (pc = "config_read" /\ "price" \notin DOMAIN cfp.formats) =>
            /\ "price" \in DOMAIN config.general.display_options_format
            /\ config.general.display_options_format["price"]
                    = cfp.currency_symbol \o <<FLOAT_FORMATTER>>

\* C6  Separator law: after every prefix of the coin loop the text is the
\* blocks of the coins placed on the main line so far, in configured order,
\* joined by the separator: a space, the spacer symbol when it is not empty
\* and a space before it, so N blocks hold N-1 separators and none leads or
\* trails.
MainSeparator ==
    IF config.general.spacer_symbol = << >> THEN <<" ">>
    ELSE <<" ">> \o config.general.spacer_symbol \o <<" ">>

SeparatorLaw ==
    pc # "main" =>
        output_obj.text = Join(Blocks(coin_idx, FALSE), MainSeparator)

SeparatorLawWitness ==
    /\ pc = "done"
    /\ Len(config.coins) = 3
    /\ ~CoinCfg(1).in_tooltip
    /\ CoinCfg(2).in_tooltip
    /\ ~CoinCfg(3).in_tooltip
    /\ config.general.spacer_symbol # << >>

\* C7  Tooltip separator: after every prefix of the coin loop the tooltip is
\* the blocks of the coins placed in the tooltip so far, in configured order,
\* joined by single newlines, and does not begin with a newline; the text
\* begins with the block of the first coin placed on the main line.
TooltipSeparator ==
    pc # "main" =>
        /\ output_obj.tooltip = Join(Blocks(coin_idx, TRUE), <<"\n">>)
        /\ output_obj.tooltip # << >> => Head(output_obj.tooltip) # "\n"
        /\ Blocks(coin_idx, FALSE) # << >> =>
                StartsWith(output_obj.text, Blocks(coin_idx, FALSE)[1])

TooltipSeparatorWitness ==
    /\ pc = "done"
    /\ Len(config.coins) = 3
    /\ ~CoinCfg(1).in_tooltip
    /\ CoinCfg(2).in_tooltip
    /\ CoinCfg(3).in_tooltip

\* C8  Case-insensitive lookup: _find_coin_data finds a record exactly when
\* a key of the response equals the symbol ignoring case, and raises
\* WaybarCryptoException otherwise.
CaseInsensitiveLookup ==
    pc = "looked_up" =>
        /\ found.ok <=> HasKey(symbol)
        /\ raised = (IF HasKey(symbol) THEN "none" ELSE "WaybarCryptoException")

CaseInsensitiveLookupWitness ==
    /\ pc = "looked_up"
    /\ found.ok
    /\ symbol = bt
    /\ \A k \in DOMAIN quotes_latest.data : quotes_latest.data[k][1] # symbol
    /\ quotes_latest.data[1][1] = BT

\* C9  Missing symbol: when a configured coin has no key in the response,
\* even ignoring case, waybar_output does not return, nothing is written,
\* and the exception that ends the run is WaybarCryptoException.
MissingSymbolAborts ==
    (\E k \in DOMAIN config.coins : ~HasKey(CoinName(k)))
    => /\ ~Returned
       /\ stdout = << >>
       /\ pc = "raised" => raised = "WaybarCryptoException"

\* C10  Missing currency: when the record of a coin is found and its quote
\* has no entry for the configured currency, waybar_output does not return
\* and the exception that ends the rendering of that coin is
\* WaybarCryptoException.
MissingCurrencySameClass ==
    \A k \in DOMAIN config.coins :
        (HasKey(CoinName(k)) /\ ~HasCurrency(k))
        => /\ ~Returned
           /\ RaisedAt(k) => raised = "WaybarCryptoException"

\* C11  Precision routing: in the block of every rendered coin the two
\* volume metrics, volume_change_24h among them, are rounded and formatted
\* with the volume precision of the coin, the percent changes with its change
\* precision and the price with its price precision.
PrecisionRouting ==
    \A k \in DOMAIN config.coins :
        RenderedLast(k) => last_output = CoinCfg(k).icon \o RoutedMetrics(k, 1)

PrecisionRoutingWitness ==
    /\ pc = "done"
    /\ \E j \in DOMAIN Requested : Requested[j] = "volume_change_24h"
    /\ \E k \in DOMAIN config.coins :
        /\ RenderedLast(k)
        /\ CoinCfg(k).volume_precision # CoinCfg(k).change_precision
        /\ CoinCfg(k).volume_precision # CoinCfg(k).price_precision
        /\ FormatFloat(PairInfo(k)["volume_change_24h"],
                       CoinCfg(k).volume_precision)
            # FormatFloat(PairInfo(k)["volume_change_24h"],
                          CoinCfg(k).change_precision)

\* C12  Output order: after every prefix of the coin loop the text and the
\* tooltip hold the blocks of the coins placed there in configured order,
\* and the block of the coin rendered last holds one entry for each element
\* of display_options, in the order of display_options, an element listed
\* twice being rendered twice.
OutputOrder ==
    pc # "main" =>
        /\ output_obj.text = Join(Blocks(coin_idx, FALSE), MainSeparator)
        /\ output_obj.tooltip = Join(Blocks(coin_idx, TRUE), <<"\n">>)
        /\ coin_idx >= 1 => last_output = ResolvedBlock(coin_idx)

OutputOrderWitness ==
    /\ pc = "done"
    /\ Requested = <<"price", "price">>
    /\ Len(config.coins) = 3
    /\ Len(Blocks(3, FALSE)) = 2
    /\ Blocks(3, FALSE)[1] # Blocks(3, FALSE)[2]

\* C13  Class tag: whenever waybar_output returns, the result has exactly
\* the fields text, tooltip and class, each a string, and class is the
\* literal crypto; so has what main writes.
ClassTag ==
    /\ Returned =>
        /\ DOMAIN output_obj = {"text", "tooltip", "class"}
        /\ output_obj.text \in Seq(STRING)
        /\ output_obj.tooltip \in Seq(STRING)
        /\ output_obj.class = <<"c", "r", "y", "p", "t", "o">>
    /\ \A k \in DOMAIN stdout :
        /\ DOMAIN stdout[k] = {"text", "tooltip", "class"}
        /\ stdout[k].class = <<"c", "r", "y", "p", "t", "o">>

ClassTagWitness ==
    /\ pc = "done"
    /\ Len(stdout) = 1
    /\ stdout[1].text # << >>
    /\ stdout[1].tooltip # << >>

\* C14  Determinism: the calls of waybar_output on one object with one
\* response all have the same outcome: the same text, tooltip and class, or
\* the same exception.
Determinism ==
    \A a, b \in DOMAIN results : results[a] = results[b]

DeterminismWitness ==
    /\ Len(results) = 2
    /\ results[2].exc = "none"
    /\ results[2].output.text # << >>
    /\ results[2].output.tooltip # << >>

\* C15  Data source error: when the HTTP status is not 200 and the body has
\* a status object, coinmarketcap_latest raises CoinmarketcapApiException
\* and returns no response; the exception carries the error_code and the
\* error_message of the status object unchanged, None for an absent
\* error_code and 'coinmarketcap API error' for an absent error_message.
HasStatusObject ==
    /\ ~response.timeout
    /\ response.json
    /\ "status" \in DOMAIN response.body

DisplayValidated ==
    calls >= 1 =>
        /\ pc = "config_read" =>
            /\ Requested # << >>
            /\ \A j \in DOMAIN Requested : Requested[j] \in DisplayOption
            /\ Requested = (IF DisplayNames = << >> THEN <<"price">>
                            ELSE DisplayNames)
        /\ DisplayUnrecognised =>
            /\ pc = "config_failed"
            /\ raised \in WaybarCryptoExceptions

DisplayValidatedWitness ==
    /\ pc = "config_read"
    /\ cfp.display = <<<<"percent_change_1h", ",", "price">>>>
    /\ Requested = <<"percent_change_1h", "price">>

\* C17  Precisions are non-negative: in every Config read_config returns
\* the three precisions of each coin are >= 0, the configured value when
\* the section gives one and 2 when it does not; a configured precision
\* below 0 makes read_config raise a WaybarCryptoException, and 0 does not.
PrecisionsNonNegative ==
    calls >= 1 =>
        /\ pc = "config_read" =>
            \A k \in DOMAIN config.coins :
                \A o \in COIN_PRECISION_OPTIONS :
                    /\ CoinCfg(k)[o] >= 0
                    /\ CoinCfg(k)[o] =
                        (IF o \in DOMAIN SourceSection(k).precisions
                         THEN SourceSection(k).precisions[o] ELSE 2)
        /\ NegativePrecision =>
            /\ pc = "config_failed"
            /\ raised \in WaybarCryptoExceptions
        /\ (raised = "WaybarCryptoException" /\ ~DisplayUnrecognised) =>
            NegativePrecision

PrecisionsNonNegativeWitness ==
    /\ pc = "config_read"
    /\ \E k \in DOMAIN config.coins :
        /\ SourceSection(k).precisions = [o \in {"price_precision"} |-> 0]
        /\ CoinCfg(k).price_precision = 0
        /\ CoinCfg(k).volume_precision = 2

\* C18  API key precedence: the api_key of the Config read_config returns
\* is the value of COINMARKETCAP_API_KEY when that is set and not empty,
\* and the api_key of the file when the variable is unset or empty and the
\* file has a non-empty api_key.
ApiKeyPrecedence ==
    pc = "config_read" =>
        /\ Truthy(env) => config.general.api_key = env[1]
        /\ (~Truthy(env) /\ Truthy(cfp.api_key)) =>
                config.general.api_key = cfp.api_key[1]

\* C19  Missing API key: when neither the file nor the environment gives a
\* non-empty API key, read_config returns no Config and, the file being
\* valid otherwise, raises NoApiKeyException; no Config it returns has an
\* empty api_key.
MissingApiKey ==
    calls >= 1 =>
        /\ (~Truthy(env) /\ ~Truthy(cfp.api_key)) =>
            /\ pc = "config_failed"
            /\ (~NegativePrecision /\ ~DisplayUnrecognised) =>
                    raised = "NoApiKeyException"
        /\ pc = "config_read" => config.general.api_key # << >>

PerCoinOverrideAlone ==
    \A k \in DOMAIN config.coins :
        (/\ CleanCoin(k)
         /\ \A j \in DOMAIN Requested :
                \/ Requested[j] \in DOMAIN CoinOverrides(k)
                \/ Requested[j] \in DOMAIN GlobalOverrides
         /\ \E j \in DOMAIN Requested :
                /\ Requested[j] \in DOMAIN CoinOverrides(k)
                /\ Requested[j] \notin DOMAIN GlobalOverrides)
        => /\ ~RaisedAt(k)
           /\ RenderedLast(k) => last_output = ResolvedBlock(k)

\* C23  Typed failures only: every exception that ends waybar_output is a
\* WaybarCryptoException or one of its subclasses, also when a requested
\* field is absent from the quote, when the quote has no entry for the
\* currency and when no template is defined for a requested metric.
TypedFailuresOnly ==
    pc = "raised" => raised \in WaybarCryptoExceptions

\* C24  Lookup tie-break: when a key of the response equals the symbol
\* exactly, _find_coin_data returns the record of that key, whatever other
\* keys equal the symbol ignoring case and wherever they stand; when no key
\* equals it exactly, it returns the record of the first key, in the order
\* of the response, that equals the symbol ignoring case.
LookupTieBreak ==
    pc = "looked_up" =>
        LET data == quotes_latest.data
            exact == {k \in DOMAIN data : data[k][1] = symbol}
            folded == {k \in DOMAIN data : EqualIgnoringCase(data[k][1], symbol)}
        IN  /\ exact # {} =>
                /\ found.ok
                /\ \A k \in exact : found.value = data[k][2]
            /\ (exact = {} /\ folded # {}) =>
                /\ found.ok
                /\ \E k \in folded :
                    /\ \A j \in folded : k <= j
                    /\ found.value = data[k][2]

LookupTieBreakWitness ==
    /\ pc = "looked_up"
    /\ symbol = BT
    /\ Len(quotes_latest.data) = 2
    /\ quotes_latest.data[1][1] = Bt
    /\ quotes_latest.data[2][1] = BT
    /\ found.ok
    /\ found.value = QuoteData(BT)
    /\ found.value # quotes_latest.data[1][2]

\* C25  Precision categories: for each of the nine metrics the precision the
\* renderer selects is the price precision of the coin for price, its change
\* precision for the six percent changes and its volume precision for
\* volume_24h and volume_change_24h; it is the default precision only when
\* that precision of the coin is, and the rendered metric carries it.
PrecisionCategories ==
    \A k \in DOMAIN config.coins :
        /\ \A o \in DisplayOption :
            /\ Precision(o, CoinCfg(k)) = RoutedPrecision(k, o)
            /\ Precision(o, CoinCfg(k))
                    \in {CoinCfg(k).price_precision,
                         CoinCfg(k).change_precision,
                         CoinCfg(k).volume_precision}
            /\ (\A q \in COIN_PRECISION_OPTIONS :
                    CoinCfg(k)[q] # DEFAULT_PRECISION)
               => Precision(o, CoinCfg(k)) # DEFAULT_PRECISION
        /\ RenderedLast(k) =>
            last_output = CoinCfg(k).icon \o RoutedMetrics(k, 1)

PrecisionCategoriesWitness ==
    /\ pc = "done"
    /\ Requested = <<"price">>
    /\ RenderedLast(1)
    /\ CoinCfg(1).price_precision = 0
    /\ CoinCfg(1).change_precision = DEFAULT_PRECISION
    /\ CoinCfg(1).volume_precision = DEFAULT_PRECISION
    /\ last_output =
        <<BitcoinSign, " ", EuroSign, "6", "2", "8", "8", "5">>

\* C26  Block shape: the block of every rendered coin is its icon followed,
\* for each entry of display_options in order, by one space and the
\* substituted template; it holds as many rendered metrics as display_options
\* has entries, begins with the icon and ends with the last substituted
\* template, without a space or separator after it.
BlockShape ==
    \A k \in DOMAIN config.coins :
        RenderedLast(k) =>
            LET pieces == Pieces(k)
            IN  /\ Len(pieces) = Len(Requested)
                /\ last_output = CoinCfg(k).icon \o Spaced(pieces, 1)
                /\ StartsWith(last_output, CoinCfg(k).icon)
                /\ Len(last_output)
                    = Len(CoinCfg(k).icon) + Len(Requested) + TotalLen(pieces, 1)
                /\ EndsWith(last_output, pieces[Len(pieces)])
                /\ last_output[Len(CoinCfg(k).icon) + 1] = " "

BlockShapeWitness ==
    /\ pc = "done"
    /\ Requested = <<"volume_change_24h", "percent_change_24h">>
    /\ config.general.spacer_symbol # << >>
    /\ \E k \in DOMAIN config.coins :
        /\ RenderedLast(k)
        /\ CoinCfg(k).icon = << >>
        /\ ~CoinCfg(k).in_tooltip
        /\ Len(Pieces(k)) = 2
        /\ last_output = <<" ">> \o Pieces(k)[1] \o <<" ">> \o Pieces(k)[2]

\* C28  Non-success never yields a response: for every HTTP response whose
\* status is not 200, coinmarketcap_latest ends with WaybarCryptoException
\* or one of its subclasses, whether the body is JSON with a status object,
\* JSON without one or no JSON at all; it returns only for status 200 with a
\* JSON body.
NonSuccessNeverYields ==
    pc # "request" =>
        /\ (~response.timeout /\ response.status_code # 200) =>
            /\ pc = "fetch_failed"
            /\ raised \in WaybarCryptoExceptions
        /\ pc = "fetched" =>
            /\ ~response.timeout
            /\ response.status_code = 200
            /\ response.json

\* C30  Accumulator frame and input immutability: the step of the loop that
\* processes a coin placed in the tooltip leaves the text unchanged, the step
\* that processes a coin placed on the main line leaves the tooltip
\* unchanged, each adding its block to the other accumulator, and no step
\* of waybar_output changes the Config or the response it was given.
AccumulatorFrame ==
    [][/\ (pc = "loop" /\ coin_idx' = coin_idx + 1) =>
            IF CoinCfg(coin_idx + 1).in_tooltip
            THEN /\ output_obj'.text = output_obj.text
                 /\ output_obj'.tooltip # output_obj.tooltip
            ELSE /\ output_obj'.tooltip = output_obj.tooltip
                 /\ output_obj'.text # output_obj.text
       /\ config' = config
       /\ quotes_latest' = quotes_latest]_vars

AccumulatorFrameWitness ==
    /\ pc = "done"
    /\ Len(config.coins) = 2
    /\ CoinCfg(1).in_tooltip
    /\ ~CoinCfg(2).in_tooltip
    /\ output_obj.tooltip = ResolvedBlock(1)
    /\ output_obj.text = ResolvedBlock(2)

\* the steps of main that come after the call of coinmarketcap_latest
AfterFetch == {"fetch_failed", "main", "loop", "returned", "raised", "done"}

\* C21  Run ordering in main: a run writes at most once, and only after
\* read_config was called, the one request was issued and answered, and
\* waybar_output returned after the last coin; when the path names no file
\* the run ends with WaybarCryptoException with no read_config call, no
\* request and nothing written.
RunOrdering ==
    /\ Len(stdout) <= 1
    /\ stdout # << >> =>
        /\ pc = "done"
        /\ calls = 1
        /\ Len(requests) = 1
        /\ quotes_latest = response.body
        /\ coin_idx = Len(config.coins)
        /\ results = <<[exc |-> "none", output |-> stdout[1]]>>
    /\ requests # << >> => calls = 1
    /\ pc \in {"loop", "returned", "raised", "done"} => Len(requests) = 1
    /\ ~isfile =>
        /\ pc \in {"parse_args", "no_file"}
        /\ pc = "no_file" => raised = "WaybarCryptoException"
        /\ calls = 0
        /\ cfp = NoFile
        /\ requests = << >>
        /\ stdout = << >>

RunOrderingWitness ==
    /\ pc = "done"
    /\ isfile
    /\ Len(stdout) = 1
    /\ Len(config.coins) = 2
    /\ stdout[1].text # << >>
    /\ stdout[1].tooltip # << >>
    /\ calls = 1
    /\ Len(requests) = 1

\* C27  Single fetch, no retry: a run of main issues no request before the
\* call of coinmarketcap_latest and exactly one by the time that call has
\* returned or raised, so that rendering starts after the one request; after
\* a timeout, a status other than 200 or an unparsable body the run ends
\* with that one request issued.
SingleFetch ==
    /\ Len(requests) <= 1
    /\ pc \notin AfterFetch => requests = << >>
    /\ pc \in AfterFetch => Len(requests) = 1
    /\ (output_obj # NoOutput \/ coin_idx > 0) => Len(requests) = 1
    /\ pc = "fetch_failed" =>
        /\ Len(requests) = 1
        /\ raised # "none"
        /\ \/ response.timeout
           \/ ~response.json
           \/ response.status_code # 200

SingleFetchWitness ==
    /\ pc = "fetch_failed"
    /\ response.timeout
    /\ Len(requests) = 1
    /\ raised = "WaybarCryptoException"

\* C29  No request with an empty key: the constructor raises
\* NoApiKeyException for a Config whose api_key is the empty string, so the
\* run of main goes on to coinmarketcap_latest only with a key that is not
\* empty, and no request carries an empty X-CMC_PRO_API_KEY header.
NoEmptyKeyRequest ==
    /\ \A k \in DOMAIN requests : requests[k].X_CMC_PRO_API_KEY # << >>
    /\ pc = "no_key" =>
        /\ raised = "NoApiKeyException"
        /\ config.general.api_key = << >>
        /\ requests = << >>
    /\ pc \in {"fetch"} \cup AfterFetch => config.general.api_key # << >>

NoEmptyKeyRequestWitness ==
    /\ pc = "no_key"
    /\ calls = 1
    /\ config.general.api_key = << >>
    /\ raised = "NoApiKeyException"
    /\ requests = << >>

====
